---------------------------- MODULE Spec2Model ----------------------------
(***************************************************************************)
(* Model of the two scripts of the repository:                             *)
(*   cds_mapping.py      : token resolution of a JSON template against a   *)
(*                         CDS record (normalize_name, extract_scalar_value,*)
(*                         lookup_root_field, find_person_by_role,         *)
(*                         find_value_in_obj, lookup_people_field,         *)
(*                         resolve_variable, transform_structure)          *)
(*   merge_letterdata.py : the fixed merge sequence of main() followed by  *)
(*                         escape_slashes.                                 *)
(*                                                                         *)
(* A Python str is a sequence of one-character strings.  A JSON value is a *)
(* tagged record; a dict is the sequence of its (key, value) entries in    *)
(* iteration (insertion) order, with pairwise distinct keys.  Numbers are  *)
(* integers.  The characters are ASCII: letters, digits, blank, tab, '_',  *)
(* '/', and the punctuation str() produces.                                *)
(***************************************************************************)
EXTENDS Integers, Sequences, FiniteSets, TLC

VARIABLES
    called,     \* the function of cds_mapping.py that was applied, or "none"
    token,      \* its str argument (var_str / field_token / s)
    record,     \* its JSON argument (root_obj / obj / value)
    template,   \* the template handed to transform_structure
    ret,        \* what the call returned (or Raised)
    pc,         \* position of merge_letterdata.main
    input_json, \* input.json as it was loaded
    base_data,  \* base_data of main; letter_data is its LetterData entry
    docinfo_data, pdf_insert_data, optionlist_data, ui_data,
    output_data \* what merge_letterdata.main writes to output.json

cdsVars == <<called, token, record, template, ret>>
mergeVars == <<pc, input_json, base_data, docinfo_data, pdf_insert_data, optionlist_data,
               ui_data, output_data>>
vars == <<called, token, record, template, ret, pc, input_json, base_data,
          docinfo_data,
          pdf_insert_data, optionlist_data, ui_data, output_data>>

---------------------------------------------------------------------------
(* JSON values, as json.load builds them *)

Null == [t |-> "null"]
Bool(b) == [t |-> "bool", b |-> b]
Num(n) == [t |-> "num", n |-> n]
Str(s) == [t |-> "str", s |-> s]
List(xs) == [t |-> "list", items |-> xs]
Obj(es) == [t |-> "obj", kv |-> es]
E(key, val) == [k |-> key, v |-> val]

\* An exception leaving the function (AttributeError on a value without
\* .items() / .get()).
Raised == [t |-> "raise"]

IsNull(x) == x.t = "null"
IsStr(x) == x.t = "str"
IsList(x) == x.t = "list"
IsObj(x) == x.t = "obj"

---------------------------------------------------------------------------
(* str methods *)

LowerCase == <<"a","b","c","d","e","f","g","h","i","j","k","l","m",
               "n","o","p","q","r","s","t","u","v","w","x","y","z">>
UpperCase == <<"A","B","C","D","E","F","G","H","I","J","K","L","M",
               "N","O","P","Q","R","S","T","U","V","W","X","Y","Z">>

IsLower(ch) == \E i \in 1..Len(LowerCase) : LowerCase[i] = ch
UpperChar(ch) ==
    IF IsLower(ch)
    THEN UpperCase[CHOOSE i \in 1..Len(LowerCase) : LowerCase[i] = ch]
    ELSE ch

\* str.upper()
upper(s) == [i \in 1..Len(s) |-> UpperChar(s[i])]

\* str.isspace() of one character
isspace(ch) == ch \in {" ", "\t", "\n"}

RECURSIVE lstrip(_)
lstrip(s) == IF s # <<>> /\ isspace(Head(s)) THEN lstrip(Tail(s)) ELSE s

RECURSIVE rstrip(_)
rstrip(s) ==
    IF s # <<>> /\ isspace(s[Len(s)]) THEN rstrip(SubSeq(s, 1, Len(s) - 1)) ELSE s

\* str.strip()
strip(s) == rstrip(lstrip(s))

\* normalize_name with the test on "_" left out of the filter.
normalize_name_keeps_underscore(s) ==
    SelectSeq(strip(upper(s)), LAMBDA ch : ~isspace(ch))

\* normalize_name: "".join(ch for ch in str(s).upper().strip()
\*                         if not ch.isspace() and ch != "_")
normalize_name(s) ==
    SelectSeq(strip(upper(s)), LAMBDA ch : ~isspace(ch) /\ ch # "_")

---------------------------------------------------------------------------
(* str(value) *)

Digits == <<"0","1","2","3","4","5","6","7","8","9">>

RECURSIVE NatToStr(_)
NatToStr(n) ==
    IF n < 10 THEN <<Digits[n + 1]>>
    ELSE NatToStr(n \div 10) \o <<Digits[(n % 10) + 1]>>

\* str(int)
IntToStr(n) == IF n < 0 THEN <<"-">> \o NatToStr(-n) ELSE NatToStr(n)

\* str(bool)
BoolToStr(b) == IF b THEN <<"T","r","u","e">> ELSE <<"F","a","l","s","e">>

RECURSIVE Flatten(_)
Flatten(ss) == IF ss = <<>> THEN <<>> ELSE Head(ss) \o Flatten(Tail(ss))

RECURSIVE Join(_, _)
Join(ss, sep) ==
    IF ss = <<>> THEN <<>>
    ELSE IF Len(ss) = 1 THEN ss[1]
    ELSE ss[1] \o sep \o Join(Tail(ss), sep)

\* repr(str): single quotes, backslash escapes (the model's characters
\* include no quote character).
ReprChar(ch) ==
    IF ch = "\t" THEN <<"\\", "t">>
    ELSE IF ch = "\n" THEN <<"\\", "n">>
    ELSE IF ch = "\\" THEN <<"\\", "\\">>
    ELSE <<ch>>
ReprStr(s) == <<"'">> \o Flatten([i \in 1..Len(s) |-> ReprChar(s[i])]) \o <<"'">>

\* repr(value), which is what str() of a dict or a list shows of its parts
RECURSIVE Repr(_)
Repr(x) ==
    CASE x.t = "null" -> <<"N","o","n","e">>
      [] x.t = "bool" -> BoolToStr(x.b)
      [] x.t = "num"  -> IntToStr(x.n)
      [] x.t = "str"  -> ReprStr(x.s)
      [] x.t = "list" ->
            <<"[">> \o Join([i \in 1..Len(x.items) |-> Repr(x.items[i])],
                            <<",", " ">>) \o <<"]">>
      [] x.t = "obj"  ->
            <<"{">> \o Join([i \in 1..Len(x.kv) |->
                                ReprStr(x.kv[i].k) \o <<":", " ">> \o Repr(x.kv[i].v)],
                            <<",", " ">>) \o <<"}">>

\* str(value) for a value that is neither None nor a list
PyStr(x) == IF x.t = "str" THEN x.s ELSE Repr(x)

---------------------------------------------------------------------------
(* cds_mapping.py *)

\* The index of the first TRUE of a sequence of test results, 0 if none: the
\* element at which a "for ... : if ...: return" loop returns.
FirstTrue(tests) ==
    IF \E i \in 1..Len(tests) : tests[i]
    THEN CHOOSE i \in 1..Len(tests) : tests[i] /\ \A j \in 1..(i - 1) : ~tests[j]
    ELSE 0

\* extract_scalar_value returning the list's first element, whatever it is.
extract_scalar_value_first_item(value) ==
    IF IsNull(value) THEN Str(<<>>)
    ELSE IF IsList(value) THEN
        IF Len(value.items) = 0 THEN Str(<<>>)
        ELSE IF IsNull(value.items[1]) THEN Str(<<>>)
        ELSE Str(PyStr(value.items[1]))
    ELSE Str(PyStr(value))

extract_scalar_value(value) ==
    IF IsNull(value) THEN Str(<<>>)
    ELSE IF IsList(value) THEN
        IF Len(value.items) = 0 THEN Str(<<>>)
        ELSE LET i == FirstTrue([j \in 1..Len(value.items) |-> IsStr(value.items[j])])
             IN  IF i # 0 THEN Str(value.items[i].s) ELSE Str(<<>>)
    ELSE Str(PyStr(value))

\* dict.get(key): the value, or None
Get(obj, key) ==
    LET i == FirstTrue([j \in 1..Len(obj.kv) |-> obj.kv[j].k = key])
    IN  IF i # 0 THEN obj.kv[i].v ELSE Null

RoleKey == <<"R","o","l","e">>
PeopleKey == <<"p","e","o","p","l","e">>
PeoplePrefix == <<"P","E","O","P","L","E","_">>

RoleMatches(person, target) ==
    /\ IsObj(person)
    /\ IsStr(Get(person, RoleKey))
    /\ normalize_name(Get(person, RoleKey).s) = target

\* find_person_by_role returning the last person of the role.
find_person_by_role_last(people_list, role_token) ==
    LET target == normalize_name(role_token)
        n == Len(people_list)
        rev == [i \in 1..n |-> people_list[n + 1 - i]]
        i == FirstTrue([j \in 1..n |-> RoleMatches(rev[j], target)])
    IN  IF i # 0 THEN rev[i] ELSE Null

find_person_by_role(people_list, role_token) ==
    LET target == normalize_name(role_token)
        i == FirstTrue([j \in 1..Len(people_list) |-> RoleMatches(people_list[j], target)])
    IN  IF i # 0 THEN people_list[i] ELSE Null

\* The search that at each dict tries every key of the dict before it
\* descends into any value.
RECURSIVE search_direct_first(_, _)
search_direct_first(o, target) ==
    IF IsObj(o) THEN
        LET i == FirstTrue([n \in 1..Len(o.kv) |-> normalize_name(o.kv[n].k) = target])
            j == FirstTrue([n \in 1..Len(o.kv) |->
                              search_direct_first(o.kv[n].v, target) # Null])
        IN  IF i # 0 THEN extract_scalar_value(o.kv[i].v)
            ELSE IF j # 0 THEN search_direct_first(o.kv[j].v, target)
            ELSE Null
    ELSE IF IsList(o) THEN
        LET j == FirstTrue([n \in 1..Len(o.items) |->
                              search_direct_first(o.items[n], target) # Null])
        IN  IF j # 0 THEN search_direct_first(o.items[j], target) ELSE Null
    ELSE Null

find_value_direct_first(obj, field_token) ==
    search_direct_first(obj, normalize_name(field_token))

\* The search with "if found:" in place of "if found is not None:": an empty
\* result found below is passed over.
RECURSIVE search_truthy(_, _)
search_truthy(o, target) ==
    IF IsObj(o) THEN
        LET i == FirstTrue([n \in 1..Len(o.kv) |->
                    \/ normalize_name(o.kv[n].k) = target
                    \/ search_truthy(o.kv[n].v, target) \notin {Null, Str(<<>>)}])
        IN  IF i = 0 THEN Null
            ELSE IF normalize_name(o.kv[i].k) = target
                 THEN extract_scalar_value(o.kv[i].v)
                 ELSE search_truthy(o.kv[i].v, target)
    ELSE IF IsList(o) THEN
        LET i == FirstTrue([n \in 1..Len(o.items) |->
                    search_truthy(o.items[n], target) \notin {Null, Str(<<>>)}])
        IN  IF i # 0 THEN search_truthy(o.items[i], target) ELSE Null
    ELSE Null

find_value_truthy(obj, field_token) == search_truthy(obj, normalize_name(field_token))

\* _search of find_value_in_obj.  In the loop over o.items() an entry ends
\* the loop when its key matches (return extract_scalar_value(v)) or when the
\* search of its value finds something (return found).
RECURSIVE _search(_, _)
_search(o, target) ==
    IF IsObj(o) THEN
        LET i == FirstTrue([n \in 1..Len(o.kv) |->
                              \/ normalize_name(o.kv[n].k) = target
                              \/ _search(o.kv[n].v, target) # Null])
        IN  IF i = 0 THEN Null
            ELSE IF normalize_name(o.kv[i].k) = target
                 THEN extract_scalar_value(o.kv[i].v)
                 ELSE _search(o.kv[i].v, target)
    ELSE IF IsList(o) THEN
        LET i == FirstTrue([n \in 1..Len(o.items) |-> _search(o.items[n], target) # Null])
        IN  IF i # 0 THEN _search(o.items[i], target) ELSE Null
    ELSE Null

find_value_in_obj(obj, field_token) == _search(obj, normalize_name(field_token))

\* lookup_root_field searching the whole record instead of its top level.
lookup_root_field_deep(var_str, root_obj) ==
    IF ~IsObj(root_obj) THEN Raised ELSE find_value_in_obj(root_obj, var_str)

\* root_obj.items() raises AttributeError when root_obj is no dict.
lookup_root_field(var_str, root_obj) ==
    IF ~IsObj(root_obj) THEN Raised
    ELSE LET target == normalize_name(var_str)
             i == FirstTrue([n \in 1..Len(root_obj.kv) |->
                              normalize_name(root_obj.kv[n].k) = target])
         IN  IF i # 0 THEN extract_scalar_value(root_obj.kv[i].v) ELSE Null

\* root_obj.get raises AttributeError when root_obj is no dict.
lookup_people_field(root_obj, role_token, var_token) ==
    IF ~IsObj(root_obj) THEN Raised
    ELSE LET people_list == Get(root_obj, PeopleKey)
         IN  IF ~IsList(people_list) THEN Null
             ELSE LET person == find_person_by_role(people_list.items, role_token)
                  IN  IF IsNull(person) THEN Null
                      ELSE find_value_in_obj(person, var_token)

startswith(s, prefix) ==
    Len(s) >= Len(prefix) /\ SubSeq(s, 1, Len(prefix)) = prefix

\* str.partition("_"): <<before, sep, after>>; sep is empty without a "_"
partition(s) ==
    LET i == FirstTrue([n \in 1..Len(s) |-> s[n] = "_"])
    IN  IF i = 0 THEN <<s, <<>>, <<>>>>
        ELSE <<SubSeq(s, 1, i - 1), <<"_">>, SubSeq(s, i + 1, Len(s))>>

HasUnderscore(s) == \E i \in 1..Len(s) : s[i] = "_"

\* None becomes "", a str stays, an exception goes on to the caller.
OrEmpty(value) == IF IsNull(value) THEN Str(<<>>) ELSE value

\* resolve_variable that tries the root lookup on tokens with underscores too.
resolve_variable_root_fallback(var_str, root_obj) ==
    LET var_clean == strip(var_str)
        var_upper == upper(var_clean)
        parts == partition(SubSeq(var_upper, Len(PeoplePrefix) + 1, Len(var_upper)))
    IN  IF var_clean = <<>> THEN Str(<<>>)
        ELSE IF startswith(var_upper, PeoplePrefix) THEN
            IF parts[2] = <<>> THEN Str(<<>>)
            ELSE OrEmpty(lookup_people_field(root_obj, parts[1], parts[3]))
        ELSE OrEmpty(lookup_root_field(var_clean, root_obj))

resolve_variable(var_str, root_obj) ==
    LET var_clean == strip(var_str)
        var_upper == upper(var_clean)
        rest == SubSeq(var_upper, Len(PeoplePrefix) + 1, Len(var_upper))
        parts == partition(rest)
        role_token == parts[1]
        sep == parts[2]
        var_token == parts[3]
    IN  IF var_clean = <<>> THEN Str(<<>>)
        ELSE IF startswith(var_upper, PeoplePrefix) THEN
            IF sep = <<>> THEN Str(<<>>)
            ELSE OrEmpty(lookup_people_field(root_obj, role_token, var_token))
        ELSE IF ~HasUnderscore(var_clean) THEN
            OrEmpty(lookup_root_field(var_clean, root_obj))
        ELSE Str(<<>>)

\* transform_structure that drops the null leaves of dicts.
RECURSIVE transform_structure_drops_null(_, _)
transform_structure_drops_null(obj, root_obj) ==
    IF IsObj(obj) THEN
        LET kept == SelectSeq(obj.kv, LAMBDA e : ~IsNull(e.v))
            es == [i \in 1..Len(kept) |->
                     E(kept[i].k, transform_structure_drops_null(kept[i].v, root_obj))]
        IN  IF \E i \in 1..Len(es) : es[i].v = Raised THEN Raised ELSE Obj(es)
    ELSE IF IsList(obj) THEN
        LET xs == [i \in 1..Len(obj.items) |->
                     transform_structure_drops_null(obj.items[i], root_obj)]
        IN  IF \E i \in 1..Len(xs) : xs[i] = Raised THEN Raised ELSE List(xs)
    ELSE IF IsStr(obj) THEN resolve_variable(obj.s, root_obj)
    ELSE obj

\* transform_structure: a dict / list comprehension over the children; an
\* exception in one child leaves the comprehension.
RECURSIVE transform_structure(_, _)
transform_structure(obj, root_obj) ==
    IF IsObj(obj) THEN
        LET es == [i \in 1..Len(obj.kv) |->
                     E(obj.kv[i].k, transform_structure(obj.kv[i].v, root_obj))]
        IN  IF \E i \in 1..Len(es) : es[i].v = Raised THEN Raised ELSE Obj(es)
    ELSE IF IsList(obj) THEN
        LET xs == [i \in 1..Len(obj.items) |-> transform_structure(obj.items[i], root_obj)]
        IN  IF \E i \in 1..Len(xs) : xs[i] = Raised THEN Raised ELSE List(xs)
    ELSE IF IsStr(obj) THEN resolve_variable(obj.s, root_obj)
    ELSE obj

---------------------------------------------------------------------------
(* merge_letterdata.py *)

DocInfoKey == <<"D","o","c","I","n","f","o">>
PdfInsertKey == <<"P","D","F","_","I","n","s","e","r","t">>
OptionListKey == <<"O","p","t","i","o","n","L","i","s","t">>
LetterDataKey == <<"L","e","t","t","e","r","D","a","t","a">>

HasKey(obj, key) == \E i \in 1..Len(obj.kv) : obj.kv[i].k = key

\* d[key] = value: the value of an existing key is replaced in place, a new
\* key goes to the end
Put(obj, key, value) ==
    IF HasKey(obj, key)
    THEN Obj([i \in 1..Len(obj.kv) |->
                IF obj.kv[i].k = key THEN E(key, value) ELSE obj.kv[i]])
    ELSE Obj(Append(obj.kv, E(key, value)))

merge_docinfo(letter_data, docinfo) ==
    LET docinfo_value == Get(docinfo, DocInfoKey)
    IN  IF IsObj(docinfo_value) THEN Put(letter_data, DocInfoKey, docinfo_value)
        ELSE letter_data

merge_pdf_insert(letter_data, pdf_insert) ==
    LET pdf_list == Get(pdf_insert, PdfInsertKey)
    IN  IF IsList(pdf_list) THEN Put(letter_data, PdfInsertKey, pdf_list)
        ELSE letter_data

merge_option_list(letter_data, option_list) ==
    LET opt_list == Get(option_list, OptionListKey)
    IN  IF IsList(opt_list) THEN Put(letter_data, OptionListKey, opt_list)
        ELSE letter_data

\* merge_ui_fields that only adds the keys LetterData does not have yet.
RECURSIVE merge_ui_fields_keeps_existing(_, _)
merge_ui_fields_keeps_existing(letter_data, ui) ==
    IF ui.kv = <<>> THEN letter_data
    ELSE merge_ui_fields_keeps_existing(
            IF HasKey(letter_data, Head(ui.kv).k) THEN letter_data
            ELSE Put(letter_data, Head(ui.kv).k, Head(ui.kv).v),
            Obj(Tail(ui.kv)))

\* for key, value in ui_data.items(): letter_data[key] = value
RECURSIVE merge_ui_fields(_, _)
merge_ui_fields(letter_data, ui) ==
    IF ui.kv = <<>> THEN letter_data
    ELSE merge_ui_fields(Put(letter_data, Head(ui.kv).k, Head(ui.kv).v),
                         Obj(Tail(ui.kv)))

\* str.replace("/", "//")
replace_slash(s) ==
    Flatten([i \in 1..Len(s) |-> IF s[i] = "/" THEN <<"/", "/">> ELSE <<s[i]>>])

RECURSIVE escape_slashes(_)
escape_slashes(obj) ==
    IF IsObj(obj) THEN
        Obj([i \in 1..Len(obj.kv) |-> E(obj.kv[i].k, escape_slashes(obj.kv[i].v))])
    ELSE IF IsList(obj) THEN
        List([i \in 1..Len(obj.items) |-> escape_slashes(obj.items[i])])
    ELSE IF IsStr(obj) THEN Str(replace_slash(obj.s))
    ELSE obj

---------------------------------------------------------------------------
(* Bounded inputs *)

MaxNameLen == 3     \* length of the strings given to normalize_name
MaxListLen == 2     \* length of the lists given to extract_scalar_value
MaxKeys == 2        \* number of keys of a generated dict
MaxPeople == 2      \* length of the people list

SeqsUpTo(S, n) == UNION {[1..k -> S] : k \in 0..n}

\* The entry sequences json.load can build: no key twice.
DictsUpTo(entries, n) ==
    {es \in SeqsUpTo(entries, n) :
        \A i, j \in 1..Len(es) : i # j => es[i].k # es[j].k}

NameChars == {"a", "A", "b", " ", "\t", "_"}
Names == SeqsUpTo(NameChars, MaxNameLen)

sX == <<"x">>
sY == <<"y">>
sA == <<"A">>
sCity == <<"C","i","t","y">>
sCI_TY == <<"C","I","_","T","Y">>
sId == <<"I","d">>
sOwn == <<"O","w","n">>
sOWN_ == <<"O","W","N"," ">>
sSec == <<"S","e","c">>
sAddr == <<"A","d","d","r">>
sTroy == <<"T","r","o","y">>
sSlash == <<"a","/","b">>

\* extract_scalar_value
ListItems ==
    {Null, Bool(TRUE), Num(1), Str(sX), Str(sY), Str(<<>>),
     List(<<Str(sA)>>), Obj(<<E(sId, Str(sX))>>)}
ExtractValues ==
    {Null, Bool(TRUE), Bool(FALSE), Num(0), Num(42), Num(-7), Num(1050),
     Str(<<>>), Str(sSlash), Obj(<<>>),
     Obj(<<E(sCity, Str(sTroy)), E(sId, List(<<Num(1), Null, Bool(FALSE)>>))>>)}
        \cup {List(xs) : xs \in SeqsUpTo(ListItems, MaxListLen)}

\* find_value_in_obj
FieldKeys == {sCity, sCI_TY, sA}
FieldTokens == {<<"C","I","T","Y">>, <<"a">>}
FieldValues ==
    {Str(sX), Str(sY), Null, List(<<>>),
     Obj(<<>>), Obj(<<E(sCity, Str(sX))>>), Obj(<<E(sCity, Null)>>),
     Obj(<<E(sCI_TY, Str(sY))>>), Obj(<<E(sA, Str(sX))>>),
     Obj(<<E(sA, Obj(<<E(sCity, Str(sY))>>))>>),
     List(<<Str(sX)>>), List(<<Num(1), Obj(<<E(sCity, Str(sY))>>)>>)}
SearchTrees ==
    {Obj(es) : es \in DictsUpTo({E(k, v) : k \in FieldKeys, v \in FieldValues}, MaxKeys)}
        \cup {List(<<Obj(<<E(sA, Null)>>), Obj(<<E(sCity, Str(sX))>>)>>), Str(sCity), Null}

\* resolve_variable
PersonPool ==
    {Str(sOwn),
     Obj(<<E(sCity, Str(sX))>>),
     Obj(<<E(RoleKey, Num(7)), E(sCity, Str(sX))>>),
     Obj(<<E(<<"r","o","l","e">>, Str(sOwn)), E(sCity, Str(sX))>>),
     Obj(<<E(RoleKey, Str(sOwn))>>),
     Obj(<<E(RoleKey, Str(sOwn)), E(sCity, Str(sTroy))>>),
     Obj(<<E(RoleKey, Str(sOWN_)), E(sAddr, Obj(<<E(sCI_TY, List(<<Str(sY)>>))>>))>>),
     Obj(<<E(RoleKey, Str(sSec)), E(sAddr, Obj(<<E(sCity, Str(sSlash))>>))>>),
     Obj(<<E(RoleKey, Str(<<>>)), E(sCity, Num(42))>>)}
PeopleValues ==
    {List(ps) : ps \in SeqsUpTo(PersonPool, MaxPeople)}
        \cup {Null, Str(sOwn), Obj(<<E(RoleKey, Str(sOwn)), E(sCity, Str(sX))>>)}
RootEntries ==
    {E(k, v) : k \in {sCity, sCI_TY, sId},
               v \in {Str(sSlash), Null, Obj(<<E(sCity, Str(sY))>>)}}
RootParts == DictsUpTo(RootEntries, MaxKeys)

\* fetch_cds_root hands main only a dict (data[0] of the API's answer); what
\* is inside the dict is not validated.
Records ==
    {Obj(es) : es \in RootParts}
        \cup {Obj(<<E(PeopleKey, pv)>>) : pv \in PeopleValues}
        \cup {Obj(<<E(sId, Str(sX)), E(PeopleKey, pv), E(sCity, Str(sY))>>) :
                pv \in PeopleValues}

\* What a caller of resolve_variable other than main can pass as root_obj.
NonDictRecords ==
    {Null, Bool(TRUE), Num(5), Str(sCity), List(<<>>),
     List(<<Obj(<<E(sCity, Str(sX))>>)>>)}
AnyRecords == Records \cup NonDictRecords

tPEOPLE_ == <<"P","E","O","P","L","E","_">>
tPeople_ == <<"p","e","o","P","L","e","_">>
tPEOPLE == <<"P","E","O","P","L","E">>
tCITY == <<"C","I","T","Y">>
tCi_ty == <<"c","i","_","t","y">>
PeopleTokens ==
    {pre \o role \o <<"_">> \o var :
        pre \in {tPEOPLE_, tPeople_},
        role \in {<<"O","W","N">>, <<"o"," ","w","n">>, <<"S","E","C">>, <<>>},
        var \in {tCITY, tCi_ty, <<"R","O","L","E">>}}
Tokens ==
    PeopleTokens \cup
    {<<>>, <<" ">>,
     tPEOPLE_, tPEOPLE_ \o <<"O","W","N">>, tPeople_ \o <<"S","e","c">>,
     tPEOPLE_ \o <<"O","W","N","_">>,
     <<" ">> \o tPEOPLE_ \o <<"O","W","N","_">> \o tCITY \o <<"\t">>,
     sCity, tCITY, <<"c","i"," ","t","y">>, <<" ","C","i","t","y"," ">>,
     <<"I","D">>, sA, PeopleKey, tPEOPLE,
     sCI_TY, tCi_ty, <<"M","_">> \o tCITY, <<"_">> \o sCity, sCity \o <<"_">>,
     <<"X">> \o tPEOPLE_ \o <<"O","W","N","_">> \o tCITY,
     tPEOPLE \o <<"O","W","N","_">> \o tCITY,
     <<"P","E","O","P","L","E"," ","_","O","W","N","_">> \o tCITY,
     <<" ">> \o tCi_ty}

\* transform_structure
TemplateLeaves ==
    {Str(tPEOPLE_ \o <<"O","W","N","_">> \o tCITY), Str(sId), Str(tCi_ty),
     Str(<<"Z","i","p">>), Num(7), Null, Bool(FALSE)}
TemplateParts ==
    TemplateLeaves
        \cup {List(xs) : xs \in SeqsUpTo(TemplateLeaves, MaxListLen)}
        \cup {Obj(es) : es \in DictsUpTo({E(k, v) : k \in {sA, sCity}, v \in TemplateLeaves},
                                         MaxKeys)}
Templates ==
    TemplateParts
        \cup {Obj(<<E(sAddr, part), E(sId, Str(sId))>>) : part \in TemplateParts}
        \cup {List(<<Str(<<"Z","i","p">>), part>>) : part \in TemplateParts}
TemplateRecords ==
    {Obj(<<>>),
     Obj(<<E(sId, Num(42))>>),
     Obj(<<E(PeopleKey, List(<<Obj(<<E(RoleKey, Str(sOwn)),
                                     E(sAddr, Obj(<<E(sCity, Str(sTroy))>>))>>)>>))>>),
     Obj(<<E(sId, Str(sSlash)),
           E(PeopleKey, List(<<Obj(<<E(RoleKey, Str(sSec))>>),
                               Obj(<<E(RoleKey, Str(sOWN_)), E(sCity, Null)>>)>>))>>)}

---------------------------------------------------------------------------
(* cds_mapping.py: one call of a function on the inputs drawn *)

MergeIdle ==
    /\ pc = "idle"
    /\ input_json = Null
    /\ base_data = Null
    /\ docinfo_data = Null
    /\ pdf_insert_data = Null
    /\ optionlist_data = Null
    /\ ui_data = Null
    /\ output_data = Null

Init ==
    /\ called = "none"
    /\ token = <<>>
    /\ record = Null
    /\ template = Null
    /\ ret = Null
    /\ MergeIdle

NormalizeName ==
    /\ called = "none"
    /\ \E s \in Names :
        /\ token' = s
        /\ ret' = Str(normalize_name(s))
    /\ called' = "normalize_name"
    /\ UNCHANGED <<record, template>>
    /\ UNCHANGED mergeVars

ExtractScalarValue ==
    /\ called = "none"
    /\ \E value \in ExtractValues :
        /\ record' = value
        /\ ret' = extract_scalar_value(value)
    /\ called' = "extract_scalar_value"
    /\ UNCHANGED <<token, template>>
    /\ UNCHANGED mergeVars

FindValueInObj ==
    /\ called = "none"
    /\ \E obj \in SearchTrees, field_token \in FieldTokens :
        /\ record' = obj
        /\ token' = field_token
        /\ ret' = find_value_in_obj(obj, field_token)
    /\ called' = "find_value_in_obj"
    /\ UNCHANGED template
    /\ UNCHANGED mergeVars

ResolveVariable(root_objs) ==
    /\ called = "none"
    /\ \E var_str \in Tokens, root_obj \in root_objs :
        /\ token' = var_str
        /\ record' = root_obj
        /\ ret' = resolve_variable(var_str, root_obj)
    /\ called' = "resolve_variable"
    /\ UNCHANGED template
    /\ UNCHANGED mergeVars

\* main: output_data = transform_structure(input_data, root_obj)
TransformStructure ==
    /\ called = "none"
    /\ \E input_data \in Templates, root_obj \in TemplateRecords :
        /\ template' = input_data
        /\ record' = root_obj
        /\ ret' = transform_structure(input_data, root_obj)
    /\ called' = "transform_structure"
    /\ UNCHANGED token
    /\ UNCHANGED mergeVars

ResolveInMain == ResolveVariable(Records)

Next ==
    \/ NormalizeName
    \/ ExtractScalarValue
    \/ FindValueInObj
    \/ ResolveInMain
    \/ TransformStructure

Spec == Init /\ [][Next]_vars

\* resolve_variable as a function of its own: any JSON value as root_obj.
ResolveAny == ResolveVariable(AnyRecords)

AnySpec == Init /\ [][ResolveAny]_vars

---------------------------------------------------------------------------
(* merge_letterdata.py: main *)

LetterEntries ==
    {E(DocInfoKey, Obj(<<E(sId, Str(sSlash))>>)),
     E(OptionListKey, Str(sX)),
     E(sCity, Str(sSlash)),
     E(sA, List(<<Str(<<"/">>), Num(1)>>))}
InputJsons ==
    {Obj(<<E(LetterDataKey, Obj(es))>>) : es \in DictsUpTo(LetterEntries, MaxKeys)}
        \cup {Obj(<<E(sId, Str(<<"/">>)),
                    E(LetterDataKey, Obj(<<E(sCity, Str(sSlash))>>))>>),
              Obj(<<E(sId, Num(1))>>),
              Obj(<<E(LetterDataKey, List(<<>>))>>)}
DocInfoFiles ==
    {Obj(<<E(DocInfoKey, Obj(<<E(sCity, Str(<<"/","/">>))>>))>>),
     Obj(<<E(DocInfoKey, Str(sX))>>),
     List(<<>>)}
PdfInsertFiles ==
    {Obj(<<E(PdfInsertKey, List(<<Str(sSlash)>>))>>),
     Obj(<<E(PdfInsertKey, Obj(<<>>))>>)}
OptionListFiles ==
    {Obj(<<E(OptionListKey, List(<<Null>>))>>), Obj(<<>>)}
UiEntries ==
    {E(DocInfoKey, Str(sSlash)),
     E(PdfInsertKey, Null),
     E(OptionListKey, List(<<Str(<<"/">>)>>)),
     E(sCity, Obj(<<E(sA, Str(<<"x","/">>))>>))}
UiFiles ==
    {Obj(es) : es \in DictsUpTo(UiEntries, MaxKeys)} \cup {List(<<>>)}

CdsIdle ==
    /\ called = "none"
    /\ token = <<>>
    /\ record = Null
    /\ template = Null
    /\ ret = Null

\* main, after the five load_json calls
MergeInit ==
    /\ CdsIdle
    /\ pc = "check"
    /\ input_json \in InputJsons
    /\ base_data = input_json
    /\ docinfo_data \in DocInfoFiles
    /\ pdf_insert_data \in PdfInsertFiles
    /\ optionlist_data \in OptionListFiles
    /\ ui_data \in UiFiles
    /\ output_data = Null

\* if "LetterData" not in base_data or not isinstance(...): raise ValueError
CheckLetterData ==
    /\ pc = "check"
    /\ pc' = IF HasKey(base_data, LetterDataKey) /\ IsObj(Get(base_data, LetterDataKey))
             THEN "merge_docinfo" ELSE "raised"
    /\ UNCHANGED <<input_json, base_data, docinfo_data, pdf_insert_data,
                   optionlist_data, ui_data, output_data>>
    /\ UNCHANGED cdsVars

\* One merge call of main on letter_data = base_data["LetterData"]; the
\* .get() / .items() of a file that holds no dict raises AttributeError.
MergeStep(at, file, merged, then) ==
    /\ pc = at
    /\ IF IsObj(file)
       THEN /\ base_data' = Put(base_data, LetterDataKey, merged)
            /\ pc' = then
       ELSE /\ base_data' = base_data
            /\ pc' = "raised"
    /\ UNCHANGED <<input_json, docinfo_data, pdf_insert_data, optionlist_data,
                   ui_data, output_data>>
    /\ UNCHANGED cdsVars

letter_data == Get(base_data, LetterDataKey)

MergeDocinfo ==
    MergeStep("merge_docinfo", docinfo_data,
              merge_docinfo(letter_data, docinfo_data), "merge_pdf_insert")

MergePdfInsert ==
    MergeStep("merge_pdf_insert", pdf_insert_data,
              merge_pdf_insert(letter_data, pdf_insert_data), "merge_option_list")

MergeOptionList ==
    MergeStep("merge_option_list", optionlist_data,
              merge_option_list(letter_data, optionlist_data), "merge_ui_fields")

MergeUiFields ==
    MergeStep("merge_ui_fields", ui_data,
              merge_ui_fields(letter_data, ui_data), "escape_slashes")

\* output_data = escape_slashes(base_data), then json.dump
EscapeSlashes ==
    /\ pc = "escape_slashes"
    /\ output_data' = escape_slashes(base_data)
    /\ pc' = "done"
    /\ UNCHANGED <<input_json, base_data, docinfo_data, pdf_insert_data,
                   optionlist_data, ui_data>>
    /\ UNCHANGED cdsVars

MergeNext ==
    \/ CheckLetterData
    \/ MergeDocinfo
    \/ MergePdfInsert
    \/ MergeOptionList
    \/ MergeUiFields
    \/ EscapeSlashes

MergeSpec == MergeInit /\ [][MergeNext]_vars

---------------------------------------------------------------------------
(* Properties *)

Empty == Str(<<>>)

\* The least element of a non-empty set of indices.
Min(S) == CHOOSE i \in S : \A j \in S : i <= j

\* The indices of the entries of a dict whose key normalizes like name.
MatchingKeys(obj, name) ==
    {i \in 1..Len(obj.kv) : normalize_name(obj.kv[i].k) = normalize_name(name)}

ResolveCalled == called = "resolve_variable"
TrimmedUpper == upper(strip(token))
IsPeopleToken == startswith(TrimmedUpper, PeoplePrefix)

\* C1: resolve_variable never raises and always returns a string, whatever
\* JSON value is the Record; for a Record that is no object the string is "".
C1_NeverRaises ==
    ResolveCalled =>
        /\ IsStr(ret)
        /\ ~IsObj(record) => ret = Empty

---------------------------------------------------------------------------

\* The output has the shape of the template, its non-string leaves are the
\* template's, and each string leaf is resolve_variable of the template's
\* leaf at that place.
RECURSIVE ShapedAndResolved(_, _, _)
ShapedAndResolved(tmpl, out, root_obj) ==
    IF IsObj(tmpl) THEN
        /\ IsObj(out)
        /\ Len(out.kv) = Len(tmpl.kv)
        /\ \A i \in 1..Len(tmpl.kv) :
            /\ out.kv[i].k = tmpl.kv[i].k
            /\ ShapedAndResolved(tmpl.kv[i].v, out.kv[i].v, root_obj)
    ELSE IF IsList(tmpl) THEN
        /\ IsList(out)
        /\ Len(out.items) = Len(tmpl.items)
        /\ \A i \in 1..Len(tmpl.items) :
            ShapedAndResolved(tmpl.items[i], out.items[i], root_obj)
    ELSE IF IsStr(tmpl) THEN
        /\ IsStr(out)
        /\ out = resolve_variable(tmpl.s, root_obj)
    ELSE out = tmpl

---------------------------------------------------------------------------

\* What follows PEOPLE_ in the trimmed, uppercased token.
Rest == SubSeq(TrimmedUpper, Len(PeoplePrefix) + 1, Len(TrimmedUpper))

\* The indices of the entries of the people list that are objects with a
\* string Role normalizing like role_token.
PeopleOfRole(people, role_token) ==
    LET target == normalize_name(role_token)
    IN  {i \in 1..Len(people.items) :
            /\ IsObj(people.items[i])
            /\ HasKey(people.items[i], RoleKey)
            /\ IsStr(Get(people.items[i], RoleKey))
            /\ normalize_name(Get(people.items[i], RoleKey).s) = target}

PeopleResult(root_obj, role_token, var_token) ==
    IF ~HasKey(root_obj, PeopleKey) \/ ~IsList(Get(root_obj, PeopleKey)) THEN Empty
    ELSE LET people == Get(root_obj, PeopleKey)
             matching == PeopleOfRole(people, role_token)
         IN  IF matching = {} THEN Empty
             ELSE LET found == find_value_in_obj(people.items[Min(matching)], var_token)
                  IN  IF found = Null THEN Empty ELSE found

\* C3: a PEOPLE_ token is split at the first underscore of its remainder into
\* roleToken and varToken; the result is the deep-search value of varToken in
\* the first person of that role, and "" when the remainder has no
\* underscore, people is absent or no list, no person has the role, or that
\* one person does not have the field.
C3_PeopleToken ==
    (ResolveCalled /\ IsPeopleToken) =>
        LET rest == Rest
        IN  IF ~HasUnderscore(rest) THEN ret = Empty
            ELSE \E n \in 1..Len(rest) :
                    /\ rest[n] = "_"
                    /\ \A m \in 1..(n - 1) : rest[m] # "_"
                    /\ ret = PeopleResult(record, SubSeq(rest, 1, n - 1),
                                          SubSeq(rest, n + 1, Len(rest)))

\* Two people of the token's role whose fields differ, and the first one's
\* value returned.
C3_Witness ==
    /\ ResolveCalled
    /\ IsPeopleToken
    /\ HasUnderscore(Rest)
    /\ ret # Empty
    /\ IsObj(record)
    /\ IsList(Get(record, PeopleKey))
    /\ LET people == Get(record, PeopleKey)
           matching == PeopleOfRole(people, partition(Rest)[1])
       IN  \E i, j \in matching :
              /\ i < j
              /\ find_value_in_obj(people.items[i], partition(Rest)[3]) = ret
              /\ find_value_in_obj(people.items[j], partition(Rest)[3]) \notin {ret, Null}

---------------------------------------------------------------------------

IsRootToken == strip(token) # <<>> /\ ~HasUnderscore(strip(token))

\* C4: a non-empty trimmed token without underscore resolves to the
\* extracted value of the first immediate key of the Record that normalizes
\* like the token, and to "" when no immediate key does; nested keys are
\* never looked at.
C4_RootToken ==
    (ResolveCalled /\ IsRootToken) =>
        IF MatchingKeys(record, token) = {} THEN ret = Empty
        ELSE ret = extract_scalar_value(record.kv[Min(MatchingKeys(record, token))].v)

\* A token that is not spelled like the key it matches.
C4_Witness ==
    /\ ResolveCalled
    /\ IsRootToken
    /\ ret # Empty
    /\ MatchingKeys(record, token) # {}
    /\ \A i \in 1..Len(record.kv) : record.kv[i].k # strip(token)

---------------------------------------------------------------------------

\* C5: a token with an underscore that does not start with PEOPLE_ (trimmed,
\* uppercased) resolves to "" for every Record, also when a key of the
\* Record normalizes like the token.
C5_UnderscoreToken ==
    (ResolveCalled /\ HasUnderscore(token) /\ ~IsPeopleToken) => ret = Empty

C5_Witness ==
    /\ ResolveCalled
    /\ HasUnderscore(token)
    /\ ~IsPeopleToken
    /\ IsObj(record)
    /\ MatchingKeys(record, token) # {}
    /\ extract_scalar_value(record.kv[Min(MatchingKeys(record, token))].v) # Empty
    /\ ret = Empty

---------------------------------------------------------------------------

DigitValue(ch) == (CHOOSE i \in 1..10 : Digits[i] = ch) - 1
IsDigit(ch) == \E i \in 1..10 : Digits[i] = ch

RECURSIVE ParseNat(_)
ParseNat(s) ==
    IF s = <<>> THEN 0
    ELSE 10 * ParseNat(SubSeq(s, 1, Len(s) - 1)) + DigitValue(s[Len(s)])

\* s is the decimal numeral of n: an optional "-", digits, no leading zero.
IsNumeralOf(s, n) ==
    LET digits == IF n < 0 THEN Tail(s) ELSE s
    IN  /\ s # <<>>
        /\ n < 0 <=> Head(s) = "-"
        /\ digits # <<>>
        /\ \A i \in 1..Len(digits) : IsDigit(digits[i])
        /\ Len(digits) > 1 => digits[1] # "0"
        /\ ParseNat(digits) = (IF n < 0 THEN -n ELSE n)

\* C6: extract_scalar_value gives "" for null, for a list its first element
\* that is a string ("" without one), a string itself, the string rendering
\* of a number or boolean, a generic rendering of an object; it never raises.
C6_ExtractScalarValue ==
    called = "extract_scalar_value" =>
        /\ IsStr(ret)
        /\ IsNull(record) => ret = Empty
        /\ IsList(record) =>
            LET strings == {i \in 1..Len(record.items) : IsStr(record.items[i])}
            IN  IF strings = {} THEN ret = Empty
                ELSE ret = record.items[Min(strings)]
        /\ IsStr(record) => ret = record
        /\ record.t = "num" => IsNumeralOf(ret.s, record.n)
        /\ record = Num(42) => ret.s = <<"4", "2">>
        /\ record.t = "bool" =>
            ret.s = (IF record.b THEN <<"T","r","u","e">> ELSE <<"F","a","l","s","e">>)
        /\ IsObj(record) => ret.s # <<>> /\ Head(ret.s) = "{" /\ ret.s[Len(ret.s)] = "}"

\* A list whose first element is no string and whose second is.
C6_Witness ==
    /\ called = "extract_scalar_value"
    /\ IsList(record)
    /\ Len(record.items) = 2
    /\ ~IsStr(record.items[1])
    /\ ~IsNull(record.items[1])
    /\ IsStr(record.items[2])
    /\ ret = record.items[2]
    /\ ret # Empty

---------------------------------------------------------------------------

LowerChar(ch) ==
    IF \E i \in 1..Len(UpperCase) : UpperCase[i] = ch
    THEN LowerCase[CHOOSE i \in 1..Len(UpperCase) : UpperCase[i] = ch]
    ELSE ch

Separators == {" ", "\t", "\n", "_"}

\* The strings one step from s: a whitespace or underscore character put in
\* or taken out at one position, or the case of one letter changed.
OneEdit(s) ==
    {SubSeq(s, 1, i) \o <<ch>> \o SubSeq(s, i + 1, Len(s)) :
        i \in 0..Len(s), ch \in Separators}
    \cup {SubSeq(s, 1, i - 1) \o SubSeq(s, i + 1, Len(s)) :
            i \in {j \in 1..Len(s) : s[j] \in Separators}}
    \cup {[s EXCEPT ![i] = UpperChar(s[i])] : i \in 1..Len(s)}
    \cup {[s EXCEPT ![i] = LowerChar(s[i])] : i \in 1..Len(s)}

\* C7: normalize_name is idempotent; a string that differs from s in case,
\* whitespace or underscores has the normalized form of s (shown for one
\* changed position, any number of them follows step by step); the
\* normalized form has no whitespace, no underscore and no lowercase letter.
C7_NormalizeName ==
    called = "normalize_name" =>
        /\ normalize_name(ret.s) = ret.s
        /\ \A other \in OneEdit(token) : normalize_name(other) = ret.s
        /\ \A i \in 1..Len(ret.s) :
            ~isspace(ret.s[i]) /\ ret.s[i] # "_" /\ ~IsLower(ret.s[i])

C7_Witness ==
    /\ called = "normalize_name"
    /\ token = <<"a", "_", "b">>
    /\ ret = Str(<<"A", "B">>)

---------------------------------------------------------------------------

FindCalled == called = "find_value_in_obj"

\* The object nodes of a tree, the tree itself included.
RECURSIVE ObjNodes(_)
ObjNodes(o) ==
    IF IsObj(o) THEN {o} \cup UNION {ObjNodes(o.kv[i].v) : i \in 1..Len(o.kv)}
    ELSE IF IsList(o) THEN UNION {ObjNodes(o.items[i]) : i \in 1..Len(o.items)}
    ELSE {}

\* C8 as stated: at each object node a key of the node that matches takes
\* precedence over everything nested; the result is the extracted value of
\* the first matching key of the node.
C8_DirectKeyFirst ==
    FindCalled =>
        \A node \in ObjNodes(record) :
            MatchingKeys(node, token) # {} =>
                find_value_in_obj(node, token) =
                    extract_scalar_value(node.kv[Min(MatchingKeys(node, token))].v)

\* C8 as the code has it: at each object node the entries are taken in
\* order, each key tested and then its value searched before the next key is
\* tested.  A matching key takes precedence over what is nested in its own
\* value and in the values of later keys; a match nested in the value of an
\* earlier key takes precedence over it.
C8_EarlierSubtreeFirst ==
    FindCalled =>
        \A node \in ObjNodes(record) :
            LET keys == MatchingKeys(node, token)
                upto == IF keys = {} THEN Len(node.kv) ELSE Min(keys) - 1
                nested == {j \in 1..upto :
                             find_value_in_obj(node.kv[j].v, token) # Null}
            IN  find_value_in_obj(node, token) =
                    IF nested # {} THEN find_value_in_obj(node.kv[Min(nested)].v, token)
                    ELSE IF keys # {} THEN extract_scalar_value(node.kv[Min(keys)].v)
                    ELSE Null

\* {"A": {"City": "x"}, "City": "y"} searched for CITY gives "x".
C8_Witness ==
    /\ FindCalled
    /\ token = <<"C","I","T","Y">>
    /\ record = Obj(<<E(sA, Obj(<<E(sCity, Str(sX))>>)), E(sCity, Str(sY))>>)
    /\ ret = Str(sX)

---------------------------------------------------------------------------

\* The entries of a tree in pre-order: an entry before the entries of its
\* value, the entries of a dict and the elements of a list in their order.
RECURSIVE PreOrder(_)
PreOrder(o) ==
    IF IsObj(o) THEN
        Flatten([i \in 1..Len(o.kv) |-> <<o.kv[i]>> \o PreOrder(o.kv[i].v)])
    ELSE IF IsList(o) THEN
        Flatten([i \in 1..Len(o.items) |-> PreOrder(o.items[i])])
    ELSE <<>>

PreOrderMatches ==
    SelectSeq(PreOrder(record),
              LAMBDA e : normalize_name(e.k) = normalize_name(token))

\* C9: find_value_in_obj returns the extracted value of the first key in
\* pre-order that normalizes like the target, final also when it is "", and
\* not-found only when no key of the tree matches.
C9_FirstInPreOrder ==
    FindCalled =>
        IF PreOrderMatches = <<>> THEN ret = Null
        ELSE ret = extract_scalar_value(PreOrderMatches[1].v)

\* The first match gives "" although a later key of the same normalized
\* name holds a non-empty value.
C9_Witness ==
    /\ FindCalled
    /\ Len(PreOrderMatches) >= 2
    /\ ret = Empty
    /\ extract_scalar_value(PreOrderMatches[2].v) # Empty

---------------------------------------------------------------------------

\* out is s with every "/" doubled and nothing else changed.
RECURSIVE SlashesDoubled(_, _)
SlashesDoubled(out, s) ==
    IF s = <<>> THEN out = <<>>
    ELSE IF Head(s) = "/" THEN
        /\ Len(out) >= 2
        /\ out[1] = "/"
        /\ out[2] = "/"
        /\ SlashesDoubled(SubSeq(out, 3, Len(out)), Tail(s))
    ELSE
        /\ out # <<>>
        /\ Head(out) = Head(s)
        /\ SlashesDoubled(Tail(out), Tail(s))

\* out is the value in with "/" doubled in every string leaf.
RECURSIVE EscapedOf(_, _)
EscapedOf(out, in) ==
    IF IsObj(in) THEN
        /\ IsObj(out)
        /\ Len(out.kv) = Len(in.kv)
        /\ \A i \in 1..Len(in.kv) :
            out.kv[i].k = in.kv[i].k /\ EscapedOf(out.kv[i].v, in.kv[i].v)
    ELSE IF IsList(in) THEN
        /\ IsList(out)
        /\ Len(out.items) = Len(in.items)
        /\ \A i \in 1..Len(in.items) : EscapedOf(out.items[i], in.items[i])
    ELSE IF IsStr(in) THEN IsStr(out) /\ SlashesDoubled(out.s, in.s)
    ELSE out = in

WrittenLetterData == Get(output_data, LetterDataKey)
LoadedLetterData == Get(input_json, LetterDataKey)
Keys(obj) == {obj.kv[i].k : i \in 1..Len(obj.kv)}

\* The written entry of key is the escaped value, if there is one to write.
WrittenIs(key, present, value) ==
    /\ HasKey(WrittenLetterData, key) <=> present
    /\ present => EscapedOf(Get(WrittenLetterData, key), value)

\* The dedicated file's value for key when it has the wanted type, else what
\* input.json had.
DedicatedOrLoaded(key, file, type) ==
    IF Get(file, key).t = type THEN WrittenIs(key, TRUE, Get(file, key))
    ELSE WrittenIs(key, HasKey(LoadedLetterData, key), Get(LoadedLetterData, key))

\* C10: in the written output every key of ui.json has ui.json's value,
\* escaped, also for DocInfo, PDF_Insert and OptionList; where ui.json does
\* not name them, these three come from their files when those hold an
\* object / list / list and from input.json otherwise; every other key of
\* LetterData keeps its escaped value.
C10_UiWinsLast ==
    pc = "done" =>
        /\ \A k \in Keys(ui_data) : WrittenIs(k, TRUE, Get(ui_data, k))
        /\ DocInfoKey \notin Keys(ui_data) =>
                DedicatedOrLoaded(DocInfoKey, docinfo_data, "obj")
        /\ PdfInsertKey \notin Keys(ui_data) =>
                DedicatedOrLoaded(PdfInsertKey, pdf_insert_data, "list")
        /\ OptionListKey \notin Keys(ui_data) =>
                DedicatedOrLoaded(OptionListKey, optionlist_data, "list")
        /\ \A k \in Keys(LoadedLetterData) \ Keys(ui_data) :
                k \notin {DocInfoKey, PdfInsertKey, OptionListKey} =>
                    WrittenIs(k, TRUE, Get(LoadedLetterData, k))
        /\ Keys(WrittenLetterData) \subseteq
                Keys(LoadedLetterData) \cup Keys(ui_data)
                    \cup {DocInfoKey, PdfInsertKey, OptionListKey}

\* DocInfo is in input.json, comes as an object from docInfo.json, and the
\* written one is ui.json's string "a/b", escaped.
C10_Witness ==
    /\ pc = "done"
    /\ HasKey(LoadedLetterData, DocInfoKey)
    /\ IsObj(Get(docinfo_data, DocInfoKey))
    /\ Get(ui_data, DocInfoKey) = Str(sSlash)
    /\ Get(WrittenLetterData, DocInfoKey) = Str(<<"a", "/", "/", "b">>)

=============================================================================
